---- MODULE Spec2Model ----
(***************************************************************************)
(* The "indentation" rule of stylelint (src/rules/indentation/index.js).   *)
(*                                                                         *)
(* A rule instance is built from (space, options) and is then invoked on   *)
(* a parsed root.  The invocation walks the root with eachInside, computes *)
(* a level for every rule, at-rule and declaration, records levels in the  *)
(* module-level hierarchyMap and reports every whitespace region that does *)
(* not equal the indentation expected for that level.                      *)
(*                                                                         *)
(* Nodes of the root are numbered 1..n in document order (the order in     *)
(* which eachInside visits them); 0 is the root itself.  Raw text is a     *)
(* sequence of characters, written NL, SP, TAB for the whitespace          *)
(* characters and any other string for a non-whitespace character.         *)
(***************************************************************************)
EXTENDS Integers, Sequences, FiniteSets, TLC

VARIABLES
  root,          \* the parsed tree the rule is invoked on
  space,         \* first argument of the rule: a number of spaces, or Tab
  options,       \* second argument of the rule
  hierarchyMap,  \* the module-level Map: node -> {superordinate, level}
  next,          \* index of the node eachInside hands to the callback next
  nodeLevel,     \* nodeLevel of every node the callback has handled in this run
  result         \* the warnings reported so far in this run, in order

vars == <<root, space, options, hierarchyMap, next, nodeLevel, result>>

(***************************************************************************)
(* Bounds of the model.                                                    *)
(***************************************************************************)
MaxNodes == 3
MaxNested == 5
MaxSiblings == 4
MaxValueLen == 5

(***************************************************************************)
(* Characters and strings.                                                 *)
(***************************************************************************)
NL == "NL"
SP == "SP"
TAB == "TAB"

\* The characters the regular expression class \s matches.
Whitespace == {NL, SP, TAB}

Exceptions == {"block", "value"}

\* The keyword "tab" given as the rule's first argument.
Tab == 0

\* What String(undefined) is: the text a missing selector is coerced to
\* when it is handed to String.prototype.indexOf.  One symbol stands for
\* the whole word.
Undefined == <<"undefined">>

\* The absence of an entry in the hierarchyMap (Map.prototype.has is false).
NoEntry == [superordinate |-> -1, level |-> 0]

\* lodash repeat: the empty string when n < 1.
RECURSIVE repeat(_, _)
repeat(str, n) == IF n < 1 THEN <<>> ELSE str \o repeat(str, n - 1)

\* source.indexOf(target) === 0
StartsWith(source, target) ==
  /\ Len(target) <= Len(source)
  /\ SubSeq(source, 1, Len(target)) = target

\* str.indexOf("\n") !== -1
HasNewline(str) == \E i \in 1..Len(str) : str[i] = NL

\* str.lastIndexOf("\n"), counted from 1; 0 when there is none.
LastNewline(str) ==
  IF HasNewline(str)
    THEN CHOOSE i \in 1..Len(str) :
           /\ str[i] = NL
           /\ \A j \in (i + 1)..Len(str) : str[j] # NL
    ELSE 0

\* str.slice(str.lastIndexOf("\n") + 1)
AfterLastNewline(str) == SubSeq(str, LastNewline(str) + 1, Len(str))

Spaces == {Tab, 2}

(***************************************************************************)
(* The tree.                                                               *)
(***************************************************************************)
Nodes == 1..root.n

Containers == {"rule", "atrule"}

\* The node types the callback does not return early for.
Inspected == {"rule", "atrule", "decl"}

\* node.prev(): the sibling right before the node, 0 when there is none.
Prev(node) ==
  LET before == {j \in 1..(node - 1) : root.parent[j] = root.parent[node]}
  IN  IF before = {} THEN 0
      ELSE CHOOSE j \in before : \A k \in before : k <= j

\* node.selector as indexOf receives it: the selector text of a rule, and
\* undefined (coerced to its text) for the root and for an at-rule.
SelectorText(node) ==
  IF node # 0 /\ root.type[node] = "rule" THEN root.selector[node]
  ELSE Undefined

\* optionsHaveException(options, exception)
optionsHaveException(exception) == exception \in options.except

indentChar == IF space = Tab THEN <<TAB>> ELSE repeat(<<SP>>, space)

warningWord == IF space = Tab THEN "tab" ELSE "space"

\* legibleExpectation together with the line and node handed to report().
legibleExpectation(level, line) ==
  LET count == IF space = Tab THEN level ELSE level * space
  IN  [count |-> count,
       word |-> IF count = 1 THEN warningWord ELSE warningWord \o "s",
       line |-> line]

Warning(node, level, line) ==
  [node |-> node, line |-> line, message |-> legibleExpectation(level, line)]

(***************************************************************************)
(* indentationLevel(node, level = 0)                                       *)
(* The functions that read the module-level hierarchyMap take its current  *)
(* content as their first argument, map.                                   *)
(***************************************************************************)
\* indentationLevel reading the parent's recorded level without adding the
\* level the node itself contributes.
RECURSIVE indentationLevelOfParent(_, _, _)
indentationLevelOfParent(map, node, level) ==
  IF root.parent[node] = 0 THEN level
  ELSE
    LET parent == root.parent[node]
        newLevel ==
          IF map[parent] # NoEntry
            THEN map[parent].level
            ELSE indentationLevelOfParent(map, parent, level + 1)
    IN  IF optionsHaveException("block") /\ root.type[node] # "decl"
          THEN newLevel - 1
          ELSE newLevel

RECURSIVE indentationLevel(_, _, _)
indentationLevel(map, node, level) ==
  IF root.parent[node] = 0 THEN level
  ELSE
    LET parent == root.parent[node]
        newLevel ==
          IF map[parent] # NoEntry
            THEN map[parent].level + 1
            ELSE indentationLevel(map, parent, level + 1)
    IN  IF optionsHaveException("block") /\ root.type[node] # "decl"
          THEN newLevel - 1
          ELSE newLevel

(***************************************************************************)
(* hierarchicalSelectorsLevel(node, nodeLevel)                             *)
(* The result is the level returned and the entry written for the node     *)
(* (NoEntry when addNodeToHierarchy is not called).                        *)
(***************************************************************************)
\* The peer search that looks at the entry of prevNode only and does not
\* follow the superordinates.
PeerSearchOnce(map, node, maybePeer) ==
  IF maybePeer # 0 /\ map[maybePeer] # NoEntry
       /\ StartsWith(root.selector[node],
                     SelectorText(map[maybePeer].superordinate))
    THEN map[maybePeer]
    ELSE NoEntry

\* The while loop over maybePeer: the entry of the peer found, or NoEntry.
RECURSIVE PeerSearch(_, _, _)
PeerSearch(map, node, maybePeer) ==
  IF maybePeer # 0 /\ map[maybePeer] # NoEntry
    THEN LET maybePeerInfo == map[maybePeer]
         IN  IF StartsWith(root.selector[node],
                           SelectorText(maybePeerInfo.superordinate))
               THEN maybePeerInfo
               ELSE PeerSearch(map, node, maybePeerInfo.superordinate)
    ELSE NoEntry

hierarchicalSelectorsLevel(map, node, level) ==
  LET prevNode == Prev(node)
  IN  IF root.type[node] # "rule" \/ prevNode = 0 \/ root.type[prevNode] # "rule"
        THEN [level |-> level, entry |-> NoEntry]
      ELSE IF StartsWith(root.selector[node], root.selector[prevNode])
        THEN LET expectedLevel ==
                   IF map[prevNode] # NoEntry
                     THEN map[prevNode].level + 1
                     ELSE level + 1
             IN  [level |-> expectedLevel,
                  entry |-> [superordinate |-> prevNode, level |-> expectedLevel]]
      ELSE LET peer == PeerSearch(map, node, prevNode)
           IN  IF peer # NoEntry
                 THEN [level |-> peer.level, entry |-> peer]
                 ELSE [level |-> level, entry |-> NoEntry]

(***************************************************************************)
(* checkValue and checkSelector                                            *)
(***************************************************************************)
\* styleSearch({ source, target: "\n" }, callback): the positions of the
\* newlines of the source, in order; the callback's second argument is the
\* ordinal of the match, counted from 1.
NewlineMatches(source) ==
  LET RECURSIVE Scan(_)
      Scan(i) == IF i > Len(source) THEN <<>>
                 ELSE IF source[i] = NL THEN <<i>> \o Scan(i + 1)
                 ELSE Scan(i + 1)
  IN  Scan(1)

\* /^(\s*)\S/.exec(text)[1]: the longest run of \s characters at the start
\* of the text; the text holds a non-whitespace character after it.
PostNewlineActual(text) ==
  LET RECURSIVE Run(_)
      Run(i) == IF i <= Len(text) /\ text[i] \in Whitespace
                  THEN <<text[i]>> \o Run(i + 1)
                  ELSE <<>>
  IN  Run(1)

\* The body shared by checkValue and checkSelector: one warning for every
\* newline of the source whose following whitespace is not the expected one.
CheckLines(node, source, level) ==
  LET matches == NewlineMatches(source)
      RECURSIVE Each(_)
      Each(newlineCount) ==
        IF newlineCount > Len(matches) THEN <<>>
        ELSE LET startIndex == matches[newlineCount]
                 postNewlineActual ==
                   PostNewlineActual(SubSeq(source, startIndex + 1, Len(source)))
                 line == root.startLine[node] + newlineCount
             IN  (IF postNewlineActual # repeat(indentChar, level)
                    THEN <<Warning(node, level, line)>>
                    ELSE <<>>) \o Each(newlineCount + 1)
  IN  Each(1)

checkValue(node, declLevel) ==
  LET value == root.value[node]
      valueLevel == IF optionsHaveException("value") THEN declLevel
                    ELSE declLevel + 1
  IN  IF ~HasNewline(value) THEN <<>>
      ELSE CheckLines(node, value, valueLevel)

checkSelector(rule, ruleLevel) ==
  LET selector == root.selector[rule]
  IN  IF ~HasNewline(selector) THEN <<>>
      ELSE CheckLines(rule, selector, ruleLevel)

(***************************************************************************)
(* The callback of root.eachInside.                                        *)
(***************************************************************************)
\* The warnings one invocation of the callback reports, in order.
Reports(node, level) ==
  LET expectedWhitespace == repeat(indentChar, level)
      before == root.before[node]
      after == root.after[node]
      inspectBefore == (node = 1) \/ HasNewline(before)
  IN  (IF inspectBefore /\ AfterLastNewline(before) # expectedWhitespace
         THEN <<Warning(node, level, root.startLine[node])>> ELSE <<>>)
      \o (IF after # <<>> /\ HasNewline(after)
               /\ AfterLastNewline(after) # expectedWhitespace
            THEN <<Warning(node, level, root.endLine[node])>> ELSE <<>>)
      \o (IF root.value[node] # <<>> THEN checkValue(node, level) ELSE <<>>)
      \o (IF root.selector[node] # <<>> THEN checkSelector(node, level) ELSE <<>>)

\* addNodeToHierarchy that also refreshes the entry of the superordinate.
addNodeToHierarchyBoth(map, node, superordinate, level) ==
  [n \in DOMAIN map |->
     IF n = node THEN [superordinate |-> superordinate, level |-> level]
     ELSE IF n = superordinate
       THEN [superordinate |-> root.parent[n], level |-> level - 1]
     ELSE map[n]]

\* addNodeToHierarchy(node, superordinate, level)
addNodeToHierarchy(map, node, superordinate, level) ==
  [map EXCEPT ![node] = [superordinate |-> superordinate, level |-> level]]

\* What the callback leaves in the hierarchyMap and the level it settles on.
Handled(map, node) ==
  LET naive == indentationLevel(map, node, 0)
  IN  IF options.hierarchicalSelectors
        THEN LET h == hierarchicalSelectorsLevel(map, node, naive)
             IN  [level |-> h.level,
                  map |-> IF h.entry # NoEntry
                            THEN addNodeToHierarchy(map, node,
                                                    h.entry.superordinate,
                                                    h.entry.level)
                            ELSE map]
        ELSE [level |-> naive,
              map |-> addNodeToHierarchy(map, node, root.parent[node], naive)]

Visit ==
  /\ next <= root.n
  /\ next' = next + 1
  /\ IF root.type[next] \notin Inspected
       THEN UNCHANGED <<hierarchyMap, nodeLevel, result>>
       ELSE LET h == Handled(hierarchyMap, next)
            IN  /\ hierarchyMap' = h.map
                /\ nodeLevel' = nodeLevel @@ (next :> h.level)
                /\ result' = result \o Reports(next, h.level)
  /\ UNCHANGED <<root, space, options>>

\* One more invocation of a rule instance on the same root object, by the
\* same or by another instance (space, options); it starts when the
\* previous invocation has returned.  The hierarchyMap is module state and
\* is not touched.
Check ==
  /\ next > root.n
  /\ \E s \in Spaces, e \in SUBSET Exceptions, h \in BOOLEAN :
       /\ space' = s
       /\ options' = [except |-> e, hierarchicalSelectors |-> h]
  /\ next' = 1
  /\ nodeLevel' = <<>>
  /\ result' = <<>>
  /\ UNCHANGED <<root, hierarchyMap>>

Next == Visit \/ Check

(***************************************************************************)
(* The roots the rule is invoked on.                                       *)
(***************************************************************************)
\* The ancestors of node j under the parent function p, the root excluded.
RECURSIVE AncestorsIn(_, _)
AncestorsIn(p, j) == IF p[j] = 0 THEN {} ELSE {p[j]} \cup AncestorsIn(p, p[j])

Ancestors(node) == AncestorsIn(root.parent, node)

\* The parent functions of the trees of n nodes numbered in document order.
Shapes(n) ==
  {p \in [1..n -> 0..(n - 1)] :
     \A i \in 1..n :
       /\ p[i] < i
       /\ i > 1 => p[i] \in {0, i - 1} \cup AncestorsIn(p, i - 1)}

\* A tree as the parser leaves it when every node starts on a line of its
\* own without indentation and every block closes on a line of its own;
\* every declaration has the value valueOf, which may span lines.
Parsed(n, p, label, valueOf) ==
  LET descendants(i) == {j \in 1..n : i \in AncestorsIn(p, j)}
      blocks(S) == Cardinality({j \in S : label[j].type \in Containers})
      extra(S) == Cardinality({j \in S : label[j].type = "decl"})
                    * Len(NewlineMatches(valueOf))
      start(i) == i + blocks({j \in 1..(i - 1) : j \notin AncestorsIn(p, i)})
                    + extra(1..(i - 1))
  IN  [n |-> n,
       parent |-> p,
       type |-> [i \in 1..n |-> label[i].type],
       selector |-> [i \in 1..n |-> label[i].selector],
       value |-> [i \in 1..n |-> IF label[i].type = "decl" THEN valueOf ELSE <<>>],
       before |-> [i \in 1..n |-> <<NL>>],
       after |-> [i \in 1..n |->
                    IF label[i].type \in Containers THEN <<NL>> ELSE <<>>],
       startLine |-> [i \in 1..n |-> start(i)],
       endLine |-> [i \in 1..n |->
                      IF label[i].type \in Containers
                        THEN start(i) + Cardinality(descendants(i))
                             + blocks(descendants(i))
                             + extra(descendants(i)) + 1
                        ELSE start(i) + extra({i})]]

RuleLabels(selectors) == {[type |-> "rule", selector |-> s] : s \in selectors}

OtherLabels(types) == {[type |-> t, selector |-> <<>>] : t \in types}

\* Every tree of at most maxN nodes labelled from labels in which only
\* rules and at-rules have children.
Trees(maxN, labels, valueOf) ==
  UNION {
    {Parsed(n, p, label, valueOf) :
       <<p, label>> \in
         {pl \in Shapes(n) \X [1..n -> labels] :
            \A i \in 1..n :
              pl[1][i] # 0 => pl[2][pl[1][i]].type \in Containers}} :
    n \in 1..maxN}

InitWith(roots) ==
  /\ root \in roots
  /\ space \in Spaces
  /\ options \in [except : SUBSET Exceptions, hierarchicalSelectors : BOOLEAN]
  /\ hierarchyMap = [node \in 1..root.n |-> NoEntry]
  /\ next = 1
  /\ nodeLevel = <<>>
  /\ result = <<>>

Init ==
  InitWith(Trees(MaxNodes,
                 RuleLabels({<<"a">>, <<"a", "b">>, Undefined})
                   \cup OtherLabels({"atrule", "decl", "comment"}),
                 <<"x">>))

Spec == Init /\ [][Next]_vars

\* Trees of rules and declarations nested up to MaxNested nodes deep.
InitNested ==
  InitWith(Trees(MaxNested,
                 RuleLabels({<<"a">>, <<"a", "b">>}) \cup OtherLabels({"decl"}),
                 <<"x">>))

SpecNested == InitNested /\ [][Next]_vars

\* Up to maxK sibling nodes, directly under the root or inside one rule.
SiblingTrees(maxK, labels) ==
  UNION {
    {Parsed(k, [i \in 1..k |-> 0], label, <<"x">>) : label \in [1..k -> labels]}
    \cup
    {Parsed(k + 1, [i \in 1..(k + 1) |-> IF i = 1 THEN 0 ELSE 1],
            [i \in 1..(k + 1) |->
               IF i = 1 THEN [type |-> "rule", selector |-> <<"a">>]
               ELSE label[i - 1]],
            <<"x">>) : label \in [1..k -> labels]} :
    k \in 1..maxK}

InitSiblings ==
  InitWith(SiblingTrees(MaxSiblings,
                        RuleLabels({<<"a">>, <<"a", "b">>, <<"a", "b", "c">>,
                                    <<"a", "d">>})))

SpecSiblings == InitSiblings /\ [][Next]_vars

\* The values of at most maxLen characters a declaration can have: the
\* parser trims a value, so it starts and ends with a non-whitespace
\* character.
Values(maxLen) ==
  {v \in UNION {[1..k -> Whitespace \cup {"x"}] : k \in 1..maxLen} :
     v[1] \notin Whitespace /\ v[Len(v)] \notin Whitespace}

\* One declaration, directly under the root or inside one rule.
InitValue ==
  InitWith(UNION {
    {Parsed(1, <<0>>, <<[type |-> "decl", selector |-> <<>>]>>, v),
     Parsed(2, <<0, 1>>, <<[type |-> "rule", selector |-> <<"a">>],
                           [type |-> "decl", selector |-> <<>>]>>, v)} :
    v \in Values(MaxValueLen)})

SpecValue == InitValue /\ [][Next]_vars

(***************************************************************************)
(* Properties.                                                             *)
(***************************************************************************)
\* The nesting depth of a node: the number of its ancestors below the root.
Depth(node) == Cardinality(Ancestors(node))

\* The nodes the callback has handled in this run.
Visited == DOMAIN nodeLevel

\* C1: with no exception configured and hierarchical selectors disabled,
\* the level of every visited rule, at-rule and declaration is its nesting
\* depth D, so the expected whitespace is the indent unit repeated D times.
C1_LevelIsDepth ==
  (options.except = {} /\ ~options.hierarchicalSelectors) =>
    \A node \in Visited :
      /\ nodeLevel[node] = Depth(node)
      /\ repeat(indentChar, nodeLevel[node]) = repeat(indentChar, Depth(node))

\* A run without exceptions and without hierarchical selectors has handled
\* a node two levels deep.
C1_Witness ==
  /\ options.except = {}
  /\ ~options.hierarchicalSelectors
  /\ \E node \in Visited : Depth(node) = 2 /\ nodeLevel[node] = 2

\* C7: within one run the hierarchyMap is write-once per node: a step of
\* the run leaves the entry of every node handled before it as it is, in
\* both modes, and no step removes an entry.
C7_WriteOnce ==
  [][\A node \in Nodes :
       /\ hierarchyMap[node] # NoEntry => hierarchyMap'[node] # NoEntry
       /\ (next' = next + 1 /\ node < next) =>
            hierarchyMap'[node] = hierarchyMap[node]]_vars

\* The run has written an entry for a node and has a later node to handle.
C7_Witness ==
  /\ next <= root.n
  /\ root.type[next] \in Inspected
  /\ \E node \in Visited : hierarchyMap[node] # NoEntry

\* The run of the current instance on the current root as it goes when it
\* starts with an empty hierarchyMap: the map, the levels and the warnings
\* after the first k nodes.
RECURSIVE FreshRun(_)
FreshRun(k) ==
  IF k = 0
    THEN [map |-> [node \in Nodes |-> NoEntry], levels |-> <<>>, result |-> <<>>]
    ELSE LET prior == FreshRun(k - 1)
         IN  IF root.type[k] \notin Inspected THEN prior
             ELSE LET h == Handled(prior.map, k)
                  IN  [map |-> h.map,
                       levels |-> prior.levels @@ (k :> h.level),
                       result |-> prior.result \o Reports(k, h.level)]

\* C6: the hierarchy state is scoped to one invocation: the levels and the
\* warnings of a run are those of a run that starts with an empty
\* hierarchyMap, whatever invocations went before it.
C6_RunIsolated ==
  /\ nodeLevel = FreshRun(next - 1).levels
  /\ result = FreshRun(next - 1).result

\* A visit: the callback handles the node next, which it does not skip.
IsVisit == next <= root.n /\ next' = next + 1 /\ root.type[next] \in Inspected

\* The superordinates the chain walk that starts at maybePeer passes when
\* no selector matches.
RECURSIVE ChainSuperordinates(_, _)
ChainSuperordinates(map, maybePeer) ==
  IF maybePeer # 0 /\ map[maybePeer] # NoEntry
    THEN {map[maybePeer].superordinate}
           \cup ChainSuperordinates(map, map[maybePeer].superordinate)
    ELSE {}

IsRule(node) == node # 0 /\ root.type[node] = "rule"

\* The node is no rule, has no rule right before it, or its selector
\* starts neither with the selector of the rule before it nor with the
\* selector of a superordinate on the chain from that rule.
Unrelated(node) ==
  \/ ~IsRule(node)
  \/ ~IsRule(Prev(node))
  \/ /\ ~StartsWith(root.selector[node], root.selector[Prev(node)])
     /\ \A s \in ChainSuperordinates(hierarchyMap, Prev(node)) :
          ~(IsRule(s) /\ StartsWith(root.selector[node], root.selector[s]))

\* C4: in hierarchical mode a node that is unrelated to what precedes it
\* keeps the level indentationLevel computes for it, and its visit leaves
\* the hierarchyMap as it is.
C4_UnrelatedKeepsNaive ==
  [][(options.hierarchicalSelectors /\ IsVisit /\ Unrelated(next)) =>
       /\ hierarchyMap' = hierarchyMap
       /\ nodeLevel'[next] = indentationLevel(hierarchyMap, next, 0)]_vars

\* C10: in hierarchical mode every entry a visit writes names as its
\* superordinate a rule that was visited before the entry's node, so the
\* chain of superordinates has no cycle.
C10_SuperordinateIsEarlierRule ==
  [][(options.hierarchicalSelectors /\ IsVisit
        /\ hierarchyMap'[next] # hierarchyMap[next]) =>
       /\ IsRule(hierarchyMap'[next].superordinate)
       /\ hierarchyMap'[next].superordinate < next]_vars

\* source starts with target and is longer.
Extends(source, target) == StartsWith(source, target) /\ Len(source) > Len(target)

\* The k-th sibling before the node, 0 when there is none.
RECURSIVE Before(_, _)
Before(node, k) ==
  IF node = 0 \/ k = 0 THEN node ELSE Before(Prev(node), k - 1)

\* Four consecutive sibling rules with selectors A, 'A B', 'A B C', 'A D',
\* all four handled in this run.
Quadruples ==
  {q \in {<<Before(n, 3), Before(n, 2), Before(n, 1), n>> :
            n \in {v \in Visited : IsRule(v) /\ Before(v, 3) # 0}} :
     /\ \A i \in 1..4 : IsRule(q[i])
     /\ Extends(root.selector[q[2]], root.selector[q[1]])
     /\ Extends(root.selector[q[3]], root.selector[q[2]])
     /\ Extends(root.selector[q[4]], root.selector[q[1]])
     /\ ~StartsWith(root.selector[q[4]], root.selector[q[2]])}

\* C3: in hierarchical mode, four consecutive sibling rules A, 'A B',
\* 'A B C', 'A D', the first of naive level L and without an entry, get the
\* levels L, L+1, L+2, L+1, and the fourth is recorded as the second is:
\* with the first as superordinate and the level L+1.
C3_PeerOfSecond ==
  options.hierarchicalSelectors =>
    \A q \in Quadruples :
      hierarchyMap[q[1]] = NoEntry =>
        LET L == indentationLevel(hierarchyMap, q[1], 0)
        IN  /\ nodeLevel[q[1]] = L
            /\ nodeLevel[q[2]] = L + 1
            /\ nodeLevel[q[3]] = L + 2
            /\ nodeLevel[q[4]] = L + 1
            /\ hierarchyMap[q[2]] = [superordinate |-> q[1], level |-> L + 1]
            /\ hierarchyMap[q[4]] = hierarchyMap[q[2]]

\* A hierarchical run has handled such four rules inside a block.
C3_Witness ==
  /\ options.hierarchicalSelectors
  /\ \E q \in Quadruples :
       /\ hierarchyMap[q[1]] = NoEntry
       /\ root.parent[q[1]] # 0
       /\ nodeLevel[q[4]] = nodeLevel[q[1]] + 1

\* C2: with the "block" exception, in either mode, a rule nested directly
\* inside a rule gets the level its parent got, and a declaration directly
\* inside a block gets the level of the block plus one.  In hierarchical
\* mode the first part is read of the rules the selector hierarchy leaves
\* alone: those with no rule right before them.
C2_BlockException ==
  optionsHaveException("block") =>
    \A node \in Visited :
      LET parent == root.parent[node]
      IN  /\ (IsRule(node) /\ IsRule(parent)
                /\ ~(options.hierarchicalSelectors /\ IsRule(Prev(node)))) =>
               nodeLevel[node] = nodeLevel[parent]
          /\ (root.type[node] = "decl" /\ parent # 0) =>
               nodeLevel[node] = nodeLevel[parent] + 1

\* C5: every level computed for a visited node and every level stored in
\* the hierarchyMap is at least 0.
C5_LevelsNotNegative ==
  /\ \A node \in Visited : nodeLevel[node] >= 0
  /\ \A node \in Nodes :
       hierarchyMap[node] # NoEntry => hierarchyMap[node].level >= 0

\* C9: for the node about to be visited, when its parent is not the root,
\* indentationLevel returns P + 1, less 1 with the "block" exception for a
\* node that is no declaration, where P is the recorded level of the parent
\* when it has an entry and the level indentationLevel computes for the
\* parent otherwise.
C9_ParentLevelPlusOne ==
  (next <= root.n /\ root.type[next] \in Inspected /\ root.parent[next] # 0) =>
    LET parent == root.parent[next]
        P == IF hierarchyMap[parent] # NoEntry
               THEN hierarchyMap[parent].level
               ELSE indentationLevel(hierarchyMap, parent, 0)
    IN  indentationLevel(hierarchyMap, next, 0) =
          IF optionsHaveException("block") /\ root.type[next] # "decl"
            THEN P
            ELSE P + 1

\* The run of spaces and tabs at the start of the text.
RECURSIVE SpaceTabRun(_)
SpaceTabRun(text) ==
  IF text # <<>> /\ Head(text) \in {SP, TAB}
    THEN <<Head(text)>> \o SpaceTabRun(Tail(text))
    ELSE <<>>

\* C8: for a visited declaration whose value has a newline, and for the
\* k-th newline of the value, a warning is reported for the declaration at
\* line start + k exactly when the run of spaces and tabs right after that
\* newline differs from the indent unit repeated expected-level times; the
\* expected level is the level of the declaration with the "value"
\* exception and that level plus one without it.
C8_ValueLines ==
  \A decl \in Visited :
    (root.type[decl] = "decl" /\ HasNewline(root.value[decl])) =>
      LET value == root.value[decl]
          expected == IF optionsHaveException("value") THEN nodeLevel[decl]
                      ELSE nodeLevel[decl] + 1
          newlines == {i \in 1..Len(value) : value[i] = NL}
          ordinal(i) == Cardinality({j \in newlines : j <= i})
          reported(line) ==
            \E w \in 1..Len(result) :
              result[w].node = decl /\ result[w].line = line
      IN  \A i \in newlines :
            reported(root.startLine[decl] + ordinal(i))
              <=> (SpaceTabRun(SubSeq(value, i + 1, Len(value)))
                     # repeat(indentChar, expected))

====
